---- MODULE Spec2Model ----
(***************************************************************************)
(* Index-weight maintenance of tushare-email-fetch:                        *)
(*   scripts/index_weight_utils.py  snapshot-to-daily expansion, price     *)
(*                                  panel, drift weights                   *)
(*   scripts/fetch_tushare.py       refresh_index_weight (incremental      *)
(*                                  refresh, merge, daily regeneration)    *)
(* Dates are day numbers.  Floating-point values are exact rationals       *)
(* extended with the IEEE values inf and NaN that pandas produces for      *)
(* x/0 and 0/0; all quantities of the program here are non-negative.       *)
(***************************************************************************)
EXTENDS Integers, Sequences, FiniteSets, TLC

\* ---------------------------------------------------------------- bounds
\* Last day number of the calendars and snapshot dates of the expansion runs.
MaxDay == 3
\* Last day number of the price tables of the drift runs.
MaxPriceDay == 2
\* Last day number of the upstream data and end dates of the refresh runs.
MaxRefreshDay == 3
\* Number of refresh_index_weight runs in a behaviour.
MaxRuns == 3

\* largest retries argument of fetch_with_retry
MaxRetries == 3

\* ------------------------------------------------------------ float values
RECURSIVE GCD(_, _)
GCD(a, b) ==
    IF b = 0 THEN a ELSE GCD(b, a % b)

\* A finite non-negative value n/d in lowest terms.
F(n, d) ==
    IF n = 0 THEN [k |-> "fin", n |-> 0, d |-> 1]
    ELSE [k |-> "fin", n |-> n \div GCD(n, d), d |-> d \div GCD(n, d)]

NaN == [k |-> "nan", n |-> 0, d |-> 1]

Inf == [k |-> "inf", n |-> 0, d |-> 1]

IsNum(x) == x.k = "fin"

IsZero(x) == x.k = "fin" /\ x.n = 0

\* float division x / y (numpy semantics: x/0 is inf, 0/0 is NaN)
FDiv(x, y) ==
    IF x.k = "nan" \/ y.k = "nan" THEN NaN
    ELSE IF x.k = "inf" THEN (IF y.k = "inf" THEN NaN ELSE Inf)
    ELSE IF y.k = "inf" THEN F(0, 1)
    ELSE IF y.n = 0 THEN (IF x.n = 0 THEN NaN ELSE Inf)
    ELSE F(x.n * y.d, x.d * y.n)

\* float multiplication (0 * inf is NaN)
FMul(x, y) ==
    IF x.k = "nan" \/ y.k = "nan" THEN NaN
    ELSE IF x.k = "inf" THEN (IF IsZero(y) THEN NaN ELSE Inf)
    ELSE IF y.k = "inf" THEN (IF IsZero(x) THEN NaN ELSE Inf)
    ELSE F(x.n * y.n, x.d * y.d)

\* float addition of two non-NaN values
FAdd(x, y) ==
    IF x.k = "inf" \/ y.k = "inf" THEN Inf
    ELSE F(x.n * y.d + y.n * x.d, x.d * y.d)

Max(S) == CHOOSE x \in S : \A y \in S : y <= x

Min(S) == CHOOSE x \in S : \A y \in S : x <= y

\* ------------------------------------------------------------- price panel
\* DataFrame.dropna(subset=[..., "close"]): rows without a close are dropped.
DropNaClose(prices) ==
    {r \in prices : r.close.k # "nan"}

\* DataFrame.pivot(index="trade_date", columns="ts_code", values="close")
Pivot(rows) ==
    [columns |-> {r.ts_code : r \in rows},
     index   |-> {r.trade_date : r \in rows},
     val     |-> [p \in {r.trade_date : r \in rows} \X {r.ts_code : r \in rows} |->
                    IF \E r \in rows : r.trade_date = p[1] /\ r.ts_code = p[2]
                    THEN (CHOOSE r \in rows :
                              r.trade_date = p[1] /\ r.ts_code = p[2]).close
                    ELSE NaN]]

\* DataFrame.reindex(days): keeps the rows of the days asked for, NaN rows
\* for days the frame does not have.
Reindex(panel, days) ==
    [columns |-> panel.columns,
     index   |-> days,
     val     |-> [p \in days \X panel.columns |->
                    IF p[1] \in panel.index THEN panel.val[p] ELSE NaN]]

\* DataFrame.sort_index().ffill(): the last non-NaN value at or above.
Ffill(panel) ==
    [columns |-> panel.columns,
     index   |-> panel.index,
     val     |-> [p \in panel.index \X panel.columns |->
                    LET seen == {e \in panel.index :
                                    e <= p[1] /\ panel.val[<<e, p[2]>>].k # "nan"}
                    IN  IF seen = {} THEN NaN
                        ELSE panel.val[<<Max(seen), p[2]>>]]]

\* Mutant: forward-fill on the raw date axis, then restrict to the calendar.
prepare_price_panel_fill_first(prices, trade_dates) ==
    Reindex(Ffill(Pivot(DropNaClose(prices))), trade_dates)

\* _prepare_price_panel(prices, trade_dates) for a non-empty `prices`
prepare_price_panel(prices, trade_dates) ==
    Ffill(Reindex(Pivot(DropNaClose(prices)), trade_dates))

\* price_panel = None
NoPanel == [none |-> TRUE, columns |-> {}, index |-> {}, val |-> <<>>]

\* expand_index_weight_daily: the panel is built only from a non-empty table
PricePanelOf(prices, trade_dates) ==
    IF prices = {} THEN NoPanel
    ELSE LET p == prepare_price_panel(prices, trade_dates)
         IN  [none |-> FALSE, columns |-> p.columns, index |-> p.index,
              val |-> p.val]

\* ----------------------------------------------------------- drift weights
\* weights.reindex(valid_codes).dropna(): the weight of each kept code
WeightOf(snapshot_rows, c) ==
    (CHOOSE r \in snapshot_rows : r.con_code = c).weight

RECURSIVE SumSkipNa(_, _)
\* DataFrame.sum(axis=1): NaN terms are skipped, an empty sum is 0
SumSkipNa(row, codes) ==
    IF codes = {} THEN F(0, 1)
    ELSE LET c == CHOOSE x \in codes : TRUE
             rest == SumSkipNa(row, codes \ {c})
         IN  IF row[c].k = "nan" THEN rest ELSE FAdd(row[c], rest)

\* Mutant: a zero denominator is replaced by 1.
ReplaceZeroByOne(denom) ==
    IF IsZero(denom) THEN F(1, 1) ELSE denom

\* denom.replace(0, pd.NA)
ReplaceZero(denom) ==
    IF IsZero(denom) THEN NaN ELSE denom

\* One day of the drift frame: rel = price / base, weighted = rel * weight,
\* denom = weighted.sum(), drift = weighted / denom.
DriftRow(price_panel, snapshot_date, d, snapshot_rows, kept) ==
    LET weighted == [c \in kept |->
                        FMul(FDiv(price_panel.val[<<d, c>>],
                                  price_panel.val[<<snapshot_date, c>>]),
                             WeightOf(snapshot_rows, c))]
        denom == ReplaceZero(SumSkipNa(weighted, kept))
    IN  [c \in kept |-> FDiv(weighted[c], denom)]

\* _compute_drift_weights: None, or the long frame
\* (trade_date, con_code, drift_weight) without its NaN entries.
compute_drift_weights(price_panel, snapshot_date, segment_days, snapshot_rows) ==
    LET codes == {r.con_code : r \in snapshot_rows}
    IN  IF ~(snapshot_date \in price_panel.index /\ codes \subseteq price_panel.columns)
        THEN [none |-> TRUE, rows |-> {}]
        ELSE
        LET valid_codes == {c \in codes :
                               price_panel.val[<<snapshot_date, c>>].k # "nan"}
            kept == {c \in valid_codes : WeightOf(snapshot_rows, c).k # "nan"}
        IN  IF valid_codes = {} \/ kept = {}
            THEN [none |-> TRUE, rows |-> {}]
            ELSE [none |-> FALSE,
                  rows |-> {x \in
                      {[trade_date |-> d, con_code |-> c,
                        drift_weight |->
                            DriftRow(price_panel, snapshot_date, d,
                                     snapshot_rows, kept)[c]] :
                          d \in segment_days, c \in kept} :
                      x.drift_weight.k # "nan"}]

\* ------------------------------------------------ snapshot-to-daily expansion
RECURSIVE SortedSeq(_)
\* sorted(set(...)) / sort_values().drop_duplicates().tolist()
SortedSeq(S) ==
    IF S = {} THEN <<>> ELSE <<Min(S)>> \o SortedSeq(S \ {Min(S)})

\* Mutant: the segment is closed at the next snapshot date (d <= next_snap).
SegmentDaysClosed(trade_dates, snap_dates, i) ==
    {d \in trade_dates :
        d >= snap_dates[i] /\ (i + 1 > Len(snap_dates) \/ d <= snap_dates[i + 1])}

\* Mutant: the segment is (snap_date, next_snap], so a day equal to a snapshot
\* date stays with the prior snapshot.
SegmentDaysShifted(trade_dates, snap_dates, i) ==
    {d \in trade_dates :
        (d > snap_dates[i] \/ (i = 1 /\ d = snap_dates[i]))
        /\ (i + 1 > Len(snap_dates) \/ d <= snap_dates[i + 1])}

\* segment_days of the i-th snapshot date: [snap_date, next_snap) on the calendar
SegmentDays(trade_dates, snap_dates, i) ==
    {d \in trade_dates :
        d >= snap_dates[i] /\ (i + 1 > Len(snap_dates) \/ d < snap_dates[i + 1])}

\* pd.concat([snap_rows.assign(trade_date=d) for d in segment_days])
Repeated(snap_rows, snap_date, segment_days) ==
    {[trade_date |-> d, snapshot_date |-> snap_date, index_code |-> r.index_code,
      con_code |-> r.con_code, weight |-> r.weight] :
        r \in snap_rows, d \in segment_days}

\* Mutant: a non-empty drift frame is merged with an inner join (how="inner").
MergeDriftInner(repeated, drift) ==
    {[trade_date |-> r.trade_date, snapshot_date |-> r.snapshot_date,
      index_code |-> r.index_code, con_code |-> r.con_code, weight |-> r.weight,
      drift_weight |->
          IF \E x \in drift.rows :
                 x.trade_date = r.trade_date /\ x.con_code = r.con_code
          THEN (CHOOSE x \in drift.rows :
                    x.trade_date = r.trade_date /\ x.con_code = r.con_code).drift_weight
          ELSE NaN] :
        r \in {q \in repeated :
                   \/ drift.rows = {}
                   \/ \E x \in drift.rows :
                          x.trade_date = q.trade_date /\ x.con_code = q.con_code}}

\* repeated.merge(drift, on=["trade_date", "con_code"], how="left"), done only
\* for a non-empty drift frame; a row without a drift value carries NaN.
MergeDrift(repeated, drift) ==
    {[trade_date |-> r.trade_date, snapshot_date |-> r.snapshot_date,
      index_code |-> r.index_code, con_code |-> r.con_code, weight |-> r.weight,
      drift_weight |->
          IF \E x \in drift.rows :
                 x.trade_date = r.trade_date /\ x.con_code = r.con_code
          THEN (CHOOSE x \in drift.rows :
                    x.trade_date = r.trade_date /\ x.con_code = r.con_code).drift_weight
          ELSE NaN] : r \in repeated}

\* The frame of the i-th snapshot of group g (empty when it has no day).
Frame(g, snap_dates, i, trade_dates, price_panel) ==
    LET segment_days == SegmentDays(trade_dates, snap_dates, i)
        snap_rows == {r \in g : r.trade_date = snap_dates[i]}
        repeated == Repeated(snap_rows, snap_dates[i], segment_days)
        drift == IF price_panel.none THEN [none |-> TRUE, rows |-> {}]
                 ELSE compute_drift_weights(price_panel, snap_dates[i],
                                            segment_days, snap_rows)
    IN  IF segment_days = {} THEN {} ELSE MergeDrift(repeated, drift)

\* expand_index_weight_daily: the rows written to output_path
expand_index_weight_daily(df, trade_dates, prices) ==
    IF df = {} THEN {}
    ELSE UNION {
        LET g == {r \in df : r.index_code = x}
            snap_dates == SortedSeq({r.trade_date : r \in g})
        IN  UNION {Frame(g, snap_dates, i, trade_dates,
                         PricePanelOf(prices, trade_dates)) :
                       i \in 1..Len(snap_dates)} :
        x \in {r.index_code : r \in df}}

\* ------------------------------------------------------------------- state
VARIABLES
    df,            \* expand_index_weight_daily: the snapshot table (rows)
    trade_dates,   \* ... its trading-day calendar
    prices,        \* ... its price rows ({} for None or an empty table)
    price_panel,   \* the panel built from them
    out_df,        \* the rows written to output_path
    rows,          \* the returned row count
    pcExpand,      \* "start" before the call, "done" after it
    raw_file,      \* index_weight_raw_path(index_code): the persisted snapshot table
    daily_file,    \* index_weight_daily_path(index_code): the persisted daily output
    upstream,      \* the rows pro.index_weight serves
    open_days,     \* the days pro.trade_cal reports open
    pc,            \* position of refresh_index_weight
    run,           \* parameters and locals of the current (or last) run
    runs,          \* number of runs started
    expected,      \* what the last failed run would have persisted had no fetch failed
    retry          \* fetch_with_retry: its arguments, loop position and outcome

expandVars == <<df, trade_dates, prices, price_panel, out_df, rows, pcExpand>>

refreshVars == <<raw_file, daily_file, upstream, open_days, pc, run, runs, expected>>

vars == <<df, trade_dates, prices, price_panel, out_df, rows, pcExpand,
          raw_file, daily_file, upstream, open_days, pc, run, runs, expected,
          retry>>

\* ------------------------------------------------------------------ inputs
IndexCodes == {"000300.SH", "000905.SH"}

ConCodes == {"A", "B"}

Days == 1..MaxDay

PriceDays == 1..MaxPriceDay

\* price and weight levels of the enumerated inputs (weights in tenths)
PriceLevels == {0, 1, 2}

WeightLevels == {0, 1, 3}

BWeightLevels == {0, 1}

SnapshotRow(x, d, c, w) ==
    [trade_date |-> d, index_code |-> x, con_code |-> c, weight |-> w]

PriceRow(c, d, close) ==
    [ts_code |-> c, trade_date |-> d, close |-> close]

\* Segmentation inputs: every index has, on each day, no snapshot or a
\* snapshot of some constituents; the weights differ from day to day.
SegDf(cx, cy) ==
    {r \in {SnapshotRow(x, d, c, F(d + (IF c = "A" THEN 1 ELSE 2), 10)) :
                x \in IndexCodes, d \in Days, c \in ConCodes} :
        r.con_code \in (IF r.index_code = "000300.SH" THEN cx ELSE cy)[r.trade_date]}

SegPrices ==
    { {},
      {PriceRow(c, d, F(d + 1, 1)) : c \in ConCodes, d \in Days},
      {PriceRow("A", d, F(d + 1, 1)) : d \in Days},
      {PriceRow("A", d, F(d + 1, 1)) : d \in Days} \cup
          {PriceRow("B", d, F(2, 1)) : d \in Days \ {1}} }

\* Drift inputs: one snapshot of A and B on day s, any price table over the
\* price days (a missing close is a NaN row, dropped by the panel builder).
DriftDf(s, wa, wb) ==
    {SnapshotRow("000300.SH", s, "A", F(wa, 10)),
     SnapshotRow("000300.SH", s, "B", F(wb, 10))}

PriceChoices == {NaN} \cup {F(p, 1) : p \in PriceLevels}

\* B's closes: missing, 0 or 1.
BPriceChoices == {NaN, F(0, 1), F(1, 1)}

PriceTable(pa, pb) ==
    {PriceRow("A", d, pa[d]) : d \in PriceDays} \cup
    {PriceRow("B", d, pb[d]) : d \in PriceDays}

\* Panel inputs: any closes of A over the days, B observed on day 1 or never.
PanelTable(pa, pb) ==
    {PriceRow("A", d, pa[d]) : d \in Days} \cup {PriceRow("B", 1, pb)}

\* The scenario of tests/test_index_weight_utils.py (02-28, 03-03, 03-04 and
\* 03-31 are days 1..4).
TestDf ==
    {SnapshotRow("000300.SH", 1, "A", F(6, 10)),
     SnapshotRow("000300.SH", 1, "B", F(4, 10)),
     SnapshotRow("000300.SH", 4, "A", F(7, 10)),
     SnapshotRow("000300.SH", 4, "C", F(3, 10))}

TestTradeDates == {1, 2, 3, 4}

TestPrices ==
    {PriceRow("A", 1, F(10, 1)), PriceRow("B", 1, F(20, 1)), PriceRow("C", 1, F(30, 1)),
     PriceRow("A", 2, F(11, 1)), PriceRow("B", 2, F(19, 1)), PriceRow("C", 2, F(31, 1)),
     PriceRow("A", 3, F(12, 1)), PriceRow("B", 3, F(22, 1)), PriceRow("C", 3, F(32, 1)),
     PriceRow("A", 4, F(13, 1)), PriceRow("B", 4, F(23, 1)), PriceRow("C", 4, F(34, 1))}

\* --------------------------------------------------- refresh_index_weight
RefreshDays == 1..MaxRefreshDay

\* The values of default_start (INDEX_START_DATE) of the runs.
StartDays == {1, 2}

\* A file: whether the path exists, whether its text can be read as CSV, its
\* number of lines (header included) and its data rows in file order.  The
\* rows of a snapshot file are a sequence, those of a daily file a set.
FileOf(n, data) ==
    [exists |-> TRUE, readable |-> TRUE, lines |-> n, rows |-> data]

\* A snapshot file that does not exist.
NoFile == [exists |-> FALSE, readable |-> FALSE, lines |-> 0, rows |-> <<>>]

\* A daily file that does not exist.
NoDaily == [exists |-> FALSE, readable |-> FALSE, lines |-> 0, rows |-> {}]

\* Mutant: a header line alone counts as data.
has_data_rows_any_line(file) ==
    file.exists /\ file.readable /\ file.lines >= 1

\* has_data_rows(path): False for a missing or zero-length file and for one
\* whose reading raises; otherwise whether a line follows the header.
has_data_rows(file) ==
    IF ~file.exists \/ file.lines = 0 THEN FALSE
    ELSE IF ~file.readable THEN FALSE
    ELSE file.lines >= 2

\* A row as pro.index_weight returns it: trade_date is a "YYYYMMDD" string.
ApiRow(d, c, w) ==
    [trade_date |-> d, repr |-> "str", index_code |-> "000300.SH",
     con_code |-> c, weight |-> w]

\* DataFrame.to_csv: the text of the rows in frame order; a string and an
\* integer trade_date are written alike.
ToCsv(table) ==
    [i \in 1..Len(table) |->
        SnapshotRow(table[i].index_code, table[i].trade_date,
                    table[i].con_code, table[i].weight)]

\* pd.read_csv: trade_date is parsed as an integer.
ReadCsv(file_rows) ==
    [i \in 1..Len(file_rows) |->
        [trade_date |-> file_rows[i].trade_date, repr |-> "int",
         index_code |-> file_rows[i].index_code,
         con_code |-> file_rows[i].con_code, weight |-> file_rows[i].weight]]

\* pd.to_datetime(df["trade_date"].astype(str), format="%Y%m%d").dt.date
AsDates(table) ==
    {SnapshotRow(table[i].index_code, table[i].trade_date,
                 table[i].con_code, table[i].weight) : i \in 1..Len(table)}

\* _min_max_trade_date(df)
MinTradeDate(table) == Min({r.trade_date : r \in AsDates(table)})

MaxTradeDate(table) == Max({r.trade_date : r \in AsDates(table)})

\* The upstream series with a snapshot of A and B on each day of S, in the
\* order of the days.
UpstreamOf(S) ==
    LET ds == SortedSeq(S)
    IN  [i \in 1..(2 * Len(ds)) |->
            LET d == ds[(i + 1) \div 2]
                c == IF i % 2 = 1 THEN "A" ELSE "B"
            IN  ApiRow(d, c, F(d + (IF c = "A" THEN 1 ELSE 2), 10))]

\* pro.index_weight(index_code, start_date, end_date)
pro_index_weight(up, start_date, end_date) ==
    LET InWindow(r) == start_date <= r.trade_date /\ r.trade_date <= end_date
    IN  SelectSeq(up, InWindow)

\* load_trade_dates(pro, start, end): the open days of the window
load_trade_dates(open, start, end) ==
    {d \in open : start <= d /\ d <= end}

\* Two rows are duplicates on (index_code, con_code, trade_date) when the
\* stored values are equal: an integer date never equals a string date.
SameKey(a, b) ==
    /\ a.index_code = b.index_code /\ a.con_code = b.con_code
    /\ a.trade_date = b.trade_date /\ a.repr = b.repr

RECURSIVE KeepFirst(_)
KeepFirst(table) ==
    IF table = <<>> THEN <<>>
    ELSE LET init == SubSeq(table, 1, Len(table) - 1)
             last == table[Len(table)]
         IN  IF \E i \in 1..Len(init) : SameKey(init[i], last)
             THEN KeepFirst(init)
             ELSE Append(KeepFirst(init), last)

\* Mutant: drop_duplicates(..., keep="last").
RECURSIVE KeepLast(_)
KeepLast(table) ==
    IF table = <<>> THEN <<>>
    ELSE LET rest == Tail(table)
         IN  IF \E i \in 1..Len(rest) : SameKey(rest[i], table[1])
             THEN KeepLast(rest)
             ELSE <<table[1]>> \o KeepLast(rest)

\* Mutant: only the fetched batch is kept.
DropDuplicatesOfBatch(existing_df, df_new) ==
    KeepFirst(df_new)

\* pd.concat([existing_df, df_new]).drop_duplicates(subset=[index_code,
\* con_code, trade_date]): the first row of each key is kept.
DropDuplicates(existing_df, df_new) ==
    KeepFirst(existing_df \o df_new)

\* The order of sort_values(["trade_date", "index_code", "con_code"]):
\* integer dates before string dates, then by value.
SortsBefore(a, b) ==
    LET ka == <<IF a.repr = "int" THEN 0 ELSE 1, a.trade_date,
                IF a.con_code = "A" THEN 1 ELSE 2>>
        kb == <<IF b.repr = "int" THEN 0 ELSE 1, b.trade_date,
                IF b.con_code = "A" THEN 1 ELSE 2>>
    IN  \/ ka[1] < kb[1]
        \/ ka[1] = kb[1] /\ ka[2] < kb[2]
        \/ ka[1] = kb[1] /\ ka[2] = kb[2] /\ ka[3] < kb[3]

\* sort_values(...).reset_index(drop=True): a stable sort.
RECURSIVE SortValues(_)
SortValues(table) ==
    IF table = <<>> THEN <<>>
    ELSE LET init == SortValues(SubSeq(table, 1, Len(table) - 1))
             last == table[Len(table)]
             k == Cardinality({i \in 1..Len(init) : ~SortsBefore(last, init[i])})
         IN  SubSeq(init, 1, k) \o <<last>> \o SubSeq(init, k + 1, Len(init))

NoRun ==
    [end_date |-> 0, default_start |-> 0, force_full_refresh |-> FALSE,
     generate_daily |-> FALSE, resumes |-> FALSE, found |-> NoFile,
     existing_none |-> TRUE,
     existing_df |-> <<>>, start_date |-> 0, df_new |-> <<>>,
     final_df |-> <<>>, rows_added |-> 0,
     daily_start |-> 0, daily_end |-> 0, raw_writes |-> 0]

\* Mutant: the fetch window starts on the latest persisted date itself.
NextStartSameDay(existing_df) == MaxTradeDate(existing_df)

\* start_date = last_trade + 1 day (lines 181-182)
NextStart(existing_df) == MaxTradeDate(existing_df) + 1

\* Lines 169-185: existing_df, start_date.
Begin(raw, end_date, default_start, full, daily, resumes) ==
    LET existing_none == ~(~full /\ has_data_rows(raw))
        existing_df == IF existing_none THEN <<>> ELSE ReadCsv(raw.rows)
    IN  [NoRun EXCEPT
            !.end_date = end_date, !.default_start = default_start,
            !.force_full_refresh = full, !.generate_daily = daily,
            !.resumes = resumes, !.found = raw,
            !.existing_none = existing_none, !.existing_df = existing_df,
            !.start_date = IF ~existing_none /\ existing_df # <<>>
                           THEN NextStart(existing_df)
                           ELSE default_start]

\* Mutant: the snapshot file is written on every run that fetched.
ShouldWriteAlways(rn, rows_added) == TRUE

\* Mutant: the snapshot file is written only when rows were fetched.
ShouldWriteWhenRowsAdded(rn, rows_added) == rows_added > 0

\* should_write (line 235)
ShouldWrite(rn, rows_added) ==
    rn.force_full_refresh \/ rn.existing_none \/ rows_added > 0

\* Lines 214-251 for the batch df_new the fetch returned: merge, rows_added,
\* sort, the write of the snapshot file.
Merged(rn, raw, df_new) ==
    LET merging == ~rn.existing_none /\ ~rn.force_full_refresh
        merged == IF merging
                  THEN (IF df_new = <<>> THEN rn.existing_df
                        ELSE DropDuplicates(rn.existing_df, df_new))
                  ELSE df_new
        final_df == SortValues(merged)
        rows_added == Len(df_new)
        should_write == ShouldWrite(rn, rows_added)
    IN  [run |-> [rn EXCEPT !.df_new = df_new,
                            !.final_df = final_df, !.rows_added = rows_added,
                            !.raw_writes = IF should_write THEN 1 ELSE 0],
         raw |-> IF should_write
                 THEN FileOf(1 + Len(final_df), ToCsv(final_df))
                 ELSE raw]

\* Lines 207-251 after a successful fetch from the upstream series.
Fetched(rn, raw, up) ==
    Merged(rn, raw, pro_index_weight(up, rn.start_date, rn.end_date))

\* Lines 253-269: whether the daily output is regenerated, and its window.
Planned(rn, daily) ==
    LET needs_daily == \/ rn.force_full_refresh
                       \/ rn.rows_added > 0
                       \/ ~has_data_rows(daily)
        daily_start == IF rn.final_df = <<>> THEN rn.default_start
                       ELSE Min({MinTradeDate(rn.final_df), rn.default_start})
        daily_end == IF rn.final_df = <<>> THEN rn.end_date
                     ELSE Max({MaxTradeDate(rn.final_df), rn.end_date})
    IN  IF rn.generate_daily /\ needs_daily /\ daily_start <= daily_end
        THEN [pc |-> "cal",
              run |-> [rn EXCEPT !.daily_start = daily_start, !.daily_end = daily_end]]
        ELSE [pc |-> "done", run |-> rn]

\* Lines 270-271 after a successful calendar fetch: the daily file written.
Calendared(rn, open) ==
    LET out == expand_index_weight_daily(
                   AsDates(rn.final_df),
                   load_trade_dates(open, rn.daily_start, rn.daily_end), {})
    IN  FileOf(1 + Cardinality(out), out)

\* The files a run at "fetch" leaves when no fetch fails.
CompletionFromFetch(rn, raw, daily, up, open) ==
    LET f == Fetched(rn, raw, up)
        pl == Planned(f.run, daily)
    IN  [raw |-> f.raw,
         daily |-> IF pl.pc = "cal" THEN Calendared(pl.run, open) ELSE daily]

\* ------------------------------------------------------- fetch_with_retry
\* The values and the exceptions the called fn may produce.
FnValues == {"v1", "v2"}

FnErrors == {"e1", "e2"}

\* No call of fetch_with_retry in progress.
NoRetry ==
    [retries |-> 0, base_delay |-> 0, attempt |-> 0, status |-> "off",
     calls |-> 0, failures |-> <<>>, slept |-> <<>>,
     fn_value |-> "none", result |-> "none", raised |-> "none"]

\* Mutant: the same delay before every retry.
RetryDelayConstant(base_delay, attempt) == base_delay

\* delay = base_delay * attempt (line 93)
RetryDelay(base_delay, attempt) == base_delay * attempt

RefreshIdle ==
    /\ retry = NoRetry
    /\ raw_file = NoFile
    /\ daily_file = NoDaily
    /\ upstream = <<>>
    /\ open_days = {}
    /\ pc = "off"
    /\ run = NoRun
    /\ runs = 0
    /\ expected = [raw |-> NoFile, daily |-> NoDaily]

\* Snapshot files a run can find that hold no data row: missing, zero-length,
\* header-only, and one whose reading raises.
ZeroLengthFile == [exists |-> TRUE, readable |-> TRUE, lines |-> 0, rows |-> <<>>]

HeaderOnlyFile == FileOf(1, <<>>)

UnreadableFile == [exists |-> TRUE, readable |-> FALSE, lines |-> 2, rows |-> <<>>]

\* The batches a fetch may return: at most two rows of constituent A, dated
\* on the start days, with weight 0.1 or 0.2; a batch may repeat a key.
BatchRows == {ApiRow(d, "A", F(w, 10)) : d \in StartDays, w \in {1, 2}}

Batches ==
    {<<>>} \cup {<<r>> : r \in BatchRows}
           \cup {<<r1, r2>> : r1 \in BatchRows, r2 \in BatchRows}

\* ------------------------------------------------------------ initial states
ExpandStart ==
    /\ price_panel = NoPanel
    /\ out_df = {}
    /\ rows = 0
    /\ pcExpand = "start"
    /\ RefreshIdle

InitTest ==
    /\ df = TestDf
    /\ trade_dates = TestTradeDates
    /\ prices \in {TestPrices, {}}
    /\ ExpandStart

InitSeg ==
    /\ df \in {SegDf(cx, cy) : cx \in [Days -> {{}, {"A"}, {"A", "B"}}],
                               cy \in [Days -> {{}, {"A", "B"}}]}
    /\ trade_dates \in SUBSET Days
    /\ prices \in SegPrices
    /\ ExpandStart

InitDrift ==
    /\ df \in {DriftDf(s, wa, wb) :
                  s \in PriceDays, wa \in WeightLevels, wb \in BWeightLevels}
    /\ trade_dates \in SUBSET PriceDays
    /\ prices \in {PriceTable(pa, pb) : pa \in [PriceDays -> PriceChoices],
                                        pb \in [PriceDays -> BPriceChoices]}
    /\ ExpandStart

InitPanel ==
    /\ df = DriftDf(1, 1, 3)
    /\ trade_dates \in SUBSET Days
    /\ prices \in {PanelTable(pa, pb) :
                      pa \in [Days -> PriceChoices], pb \in {NaN, F(1, 1)}}
    /\ ExpandStart

\* ------------------------------------------------------------------ actions
\* One call of expand_index_weight_daily(df, trade_dates, output_path, prices).
Expand ==
    /\ pcExpand = "start"
    /\ price_panel' = PricePanelOf(prices, trade_dates)
    /\ out_df' = expand_index_weight_daily(df, trade_dates, prices)
    /\ rows' = Cardinality(expand_index_weight_daily(df, trade_dates, prices))
    /\ pcExpand' = "done"
    /\ UNCHANGED <<df, trade_dates, prices>>
    /\ UNCHANGED <<refreshVars, retry>>

NextExpand == Expand

\* State after construction: no file persisted yet, some upstream series and
\* trading calendar.
Init ==
    /\ df = {} /\ trade_dates = {} /\ prices = {}
    /\ price_panel = NoPanel /\ out_df = {} /\ rows = 0 /\ pcExpand = "off"
    /\ retry = NoRetry
    /\ raw_file = NoFile
    /\ daily_file = NoDaily
    /\ upstream \in {UpstreamOf(S) : S \in SUBSET RefreshDays}
    /\ open_days \in {RefreshDays, RefreshDays \ {2}}
    /\ pc = "idle"
    /\ run = NoRun
    /\ runs = 0
    /\ expected = [raw |-> NoFile, daily |-> NoDaily]

\* State before the first run of the merge runs: the snapshot file is missing
\* or holds no data row.
InitMerge ==
    /\ df = {} /\ trade_dates = {} /\ prices = {}
    /\ price_panel = NoPanel /\ out_df = {} /\ rows = 0 /\ pcExpand = "off"
    /\ retry = NoRetry
    /\ raw_file \in {NoFile, ZeroLengthFile, HeaderOnlyFile, UnreadableFile}
    /\ daily_file = NoDaily
    /\ upstream = <<>>
    /\ open_days = RefreshDays
    /\ pc = "idle"
    /\ run = NoRun
    /\ runs = 0
    /\ expected = [raw |-> NoFile, daily |-> NoDaily]

\* fetch_with_retry(fn, retries = n, base_delay = b) is entered.
InitRetry ==
    /\ df = {} /\ trade_dates = {} /\ prices = {}
    /\ price_panel = NoPanel /\ out_df = {} /\ rows = 0 /\ pcExpand = "off"
    /\ raw_file = NoFile /\ daily_file = NoDaily
    /\ upstream = <<>> /\ open_days = {}
    /\ pc = "off" /\ run = NoRun /\ runs = 0
    /\ expected = [raw |-> NoFile, daily |-> NoDaily]
    /\ retry \in {[NoRetry EXCEPT !.retries = n, !.base_delay = b,
                                   !.attempt = 1, !.status = "call"] :
                      n \in 0..MaxRetries, b \in {1, 2}}

\* fn() returns v: fetch_with_retry returns it (line 88).
RetryOk(v) ==
    /\ retry.status = "call" /\ retry.attempt <= retry.retries
    /\ retry' = [retry EXCEPT !.calls = @ + 1, !.fn_value = v,
                              !.result = v, !.status = "returned"]
    /\ UNCHANGED <<expandVars, refreshVars>>

\* fn() raises e: re-raised on the last attempt, else the delay is computed
\* (lines 89-97).
RetryErr(e) ==
    /\ retry.status = "call" /\ retry.attempt <= retry.retries
    /\ retry' = [retry EXCEPT
                    !.calls = @ + 1,
                    !.failures = Append(@, e),
                    !.raised = IF retry.attempt = retry.retries THEN e ELSE @,
                    !.status = IF retry.attempt = retry.retries
                               THEN "raised" ELSE "sleep"]
    /\ UNCHANGED <<expandVars, refreshVars>>

\* time.sleep(delay), then the next attempt (line 98).
RetrySleep ==
    /\ retry.status = "sleep"
    /\ retry' = [retry EXCEPT
                    !.slept = Append(@, RetryDelay(retry.base_delay, retry.attempt)),
                    !.attempt = @ + 1,
                    !.status = "call"]
    /\ UNCHANGED <<expandVars, refreshVars>>

\* range(1, retries + 1) is exhausted without a call (retries < 1): the
\* function falls off its end and returns None.
RetryFallThrough ==
    /\ retry.status = "call" /\ retry.attempt > retry.retries
    /\ retry' = [retry EXCEPT !.status = "returned", !.result = "None"]
    /\ UNCHANGED <<expandVars, refreshVars>>

NextRetry ==
    \/ \E v \in FnValues : RetryOk(v)
    \/ \E e \in FnErrors : RetryErr(e)
    \/ RetrySleep
    \/ RetryFallThrough

SpecRetry == InitRetry /\ [][NextRetry]_vars

\* refresh_index_weight is called (lines 159-202): it reads the snapshot
\* file, picks the fetch window, and returns at once, skips the fetch, or
\* goes on to fetch.
StartRun(end_date, default_start, full, daily) ==
    /\ pc \in {"idle", "done", "failed"}
    /\ runs < MaxRuns
    /\ runs' = runs + 1
    /\ LET resumes == /\ pc = "failed"
                      /\ run.end_date = end_date
                      /\ run.default_start = default_start
                      /\ run.force_full_refresh = full
                      /\ run.generate_daily = daily
           rn == Begin(raw_file, end_date, default_start, full, daily, resumes)
       IN  IF rn.start_date > end_date /\ rn.existing_none
           THEN run' = rn /\ pc' = "done"
           ELSE IF rn.start_date > end_date
           THEN run' = [rn EXCEPT !.final_df = rn.existing_df] /\ pc' = "daily"
           ELSE run' = rn /\ pc' = "fetch"
    /\ UNCHANGED <<raw_file, daily_file, upstream, open_days, expected>>
    /\ UNCHANGED <<expandVars, retry>>

\* The snapshot fetch succeeds (within its retries): lines 207-251.
FetchOk ==
    /\ pc = "fetch"
    /\ run' = Fetched(run, raw_file, upstream).run
    /\ raw_file' = Fetched(run, raw_file, upstream).raw
    /\ pc' = "daily"
    /\ UNCHANGED <<daily_file, upstream, open_days, runs, expected>>
    /\ UNCHANGED <<expandVars, retry>>

\* The snapshot fetch succeeds and returns the batch df_new: lines 207-251.
FetchAny(df_new) ==
    /\ pc = "fetch"
    /\ run' = Merged(run, raw_file, df_new).run
    /\ raw_file' = Merged(run, raw_file, df_new).raw
    /\ pc' = "daily"
    /\ UNCHANGED <<daily_file, upstream, open_days, runs, expected>>
    /\ UNCHANGED <<expandVars, retry>>

\* The snapshot fetch fails on every attempt: fetch_with_retry re-raises and
\* the run ends.
FetchFail ==
    /\ pc = "fetch"
    /\ pc' = "failed"
    /\ expected' = CompletionFromFetch(run, raw_file, daily_file, upstream, open_days)
    /\ UNCHANGED <<raw_file, daily_file, upstream, open_days, run, runs>>
    /\ UNCHANGED <<expandVars, retry>>

\* Lines 253-269.
PlanDaily ==
    /\ pc = "daily"
    /\ pc' = Planned(run, daily_file).pc
    /\ run' = Planned(run, daily_file).run
    /\ UNCHANGED <<raw_file, daily_file, upstream, open_days, runs, expected>>
    /\ UNCHANGED <<expandVars, retry>>

\* The calendar fetch succeeds: the daily output is expanded and written.
CalOk ==
    /\ pc = "cal"
    /\ daily_file' = Calendared(run, open_days)
    /\ pc' = "done"
    /\ UNCHANGED <<raw_file, upstream, open_days, run, runs, expected>>
    /\ UNCHANGED <<expandVars, retry>>

\* The calendar fetch fails on every attempt: the run ends.
CalFail ==
    /\ pc = "cal"
    /\ pc' = "failed"
    /\ expected' = [raw |-> raw_file, daily |-> Calendared(run, open_days)]
    /\ UNCHANGED <<raw_file, daily_file, upstream, open_days, run, runs>>
    /\ UNCHANGED <<expandVars, retry>>

Next ==
    \/ \E end_date \in RefreshDays, default_start \in StartDays,
          full \in BOOLEAN, daily \in BOOLEAN :
            StartRun(end_date, default_start, full, daily)
    \/ FetchOk
    \/ FetchFail
    \/ PlanDaily
    \/ CalOk
    \/ CalFail

Spec == Init /\ [][Next]_vars

\* Runs without the daily output, the fetch returning any batch.
NextMerge ==
    \/ \E end_date \in RefreshDays, default_start \in StartDays, full \in BOOLEAN :
            StartRun(end_date, default_start, full, FALSE)
    \/ \E df_new \in Batches : FetchAny(df_new)
    \/ PlanDaily

SpecMerge == InitMerge /\ [][NextMerge]_vars

SpecSeg == (InitSeg \/ InitTest) /\ [][NextExpand]_vars

SpecPanel == (InitPanel \/ InitTest) /\ [][NextExpand]_vars

SpecDrift == (InitDrift \/ InitTest) /\ [][NextExpand]_vars

\* ================================================================== claims
\* Snapshot dates of index x in the input table.
SnapDatesOf(x) == {r.trade_date : r \in {q \in df : q.index_code = x}}

IndexCodesOf == {r.index_code : r \in df}

\* Rows emitted for index x on day d.
RowsOn(x, d) == {r \in out_df : r.index_code = x /\ r.trade_date = d}

\* C1: for every index and calendar day, a day on or after the index's first
\* snapshot date lies in exactly one snapshot's segment (its rows carry exactly
\* one snapshot_date), and a day before the first snapshot date lies in none
\* and has no output row.
C1_SegmentPartition ==
    pcExpand = "done" =>
        \A x \in IndexCodesOf : \A d \in trade_dates :
            IF d >= Min(SnapDatesOf(x))
            THEN Cardinality({r.snapshot_date : r \in RowsOn(x, d)}) = 1
            ELSE RowsOn(x, d) = {}

\* A finished run over an index with two snapshots, a calendar day before the
\* first, one between them and one on the second snapshot's date.
C1_Witness ==
    /\ pcExpand = "done"
    /\ \E x \in IndexCodesOf : \E s1, s2 \in SnapDatesOf(x) :
          /\ s1 = Min(SnapDatesOf(x)) /\ s1 < s2
          /\ \E d0, d1 \in trade_dates : d0 < s1 /\ s1 <= d1 /\ d1 < s2
          /\ s2 \in trade_dates
          /\ RowsOn(x, s2) # {}

\* C2: every emitted row of day d and index x carries the greatest snapshot
\* date of x that is <= d, and the weight of that snapshot's row for its
\* constituent.
C2_AnchorIsLatestSnapshot ==
    pcExpand = "done" =>
        \A r \in out_df :
            /\ {s \in SnapDatesOf(r.index_code) : s <= r.trade_date} # {}
            /\ r.snapshot_date =
                   Max({s \in SnapDatesOf(r.index_code) : s <= r.trade_date})
            /\ \E q \in df :
                  /\ q.index_code = r.index_code /\ q.con_code = r.con_code
                  /\ q.trade_date = r.snapshot_date /\ q.weight = r.weight

\* A finished run that emitted a row on a snapshot's own date although an
\* earlier snapshot of the index exists, and a row on a later day of the
\* same interval.
C2_Witness ==
    /\ pcExpand = "done"
    /\ \E r, q \in out_df :
          /\ r.trade_date = r.snapshot_date
          /\ \E s \in SnapDatesOf(r.index_code) : s < r.snapshot_date
          /\ q.index_code = r.index_code /\ q.con_code = r.con_code
          /\ q.snapshot_date = r.snapshot_date /\ q.trade_date > r.trade_date
          /\ q.weight = r.weight

\* The (index, snapshot date, day, constituent) cells of all intervals: for
\* each snapshot, its interval's days times its constituent rows.
ExpectedCells ==
    {c \in {<<r.index_code, r.trade_date, d, r.con_code>> :
                r \in df, d \in trade_dates} :
        /\ c[3] >= c[2]
        /\ ~\E s \in SnapDatesOf(c[1]) : c[2] < s /\ s <= c[3]}

\* C8: the returned count is the number of rows written, which is the sum
\* over the intervals of days x constituent rows, exactly one row per
\* (day, constituent) of every interval, with or without prices; an empty
\* table gives 0 rows.
C8_RowCount ==
    pcExpand = "done" =>
        /\ rows = Cardinality(out_df)
        /\ rows = Cardinality(ExpectedCells)
        /\ \A c \in ExpectedCells :
              Cardinality({r \in out_df :
                  /\ r.index_code = c[1] /\ r.snapshot_date = c[2]
                  /\ r.trade_date = c[3] /\ r.con_code = c[4]}) = 1
        /\ (df = {} => rows = 0 /\ out_df = {})

\* A finished run with a price panel in which, on one day of one index, one
\* row got a drift weight and another none, and with a snapshot whose
\* interval has no calendar day.
C8_Witness ==
    /\ pcExpand = "done"
    /\ ~price_panel.none
    /\ rows >= 4
    /\ \E r, q \in out_df :
          /\ r.drift_weight.k = "nan" /\ q.drift_weight.k = "fin"
          /\ r.index_code = q.index_code /\ r.trade_date = q.trade_date
    /\ \E x \in IndexCodesOf : \E s \in SnapDatesOf(x) :
          ~\E r \in out_df : r.index_code = x /\ r.snapshot_date = s

\* ---- drift claims: the panel, the snapshots and the raw drift values
SnapRowsOf(x, s) == {q \in df : q.index_code = x /\ q.trade_date = s}

\* The panel has a price for code c on day d.
HasPrice(d, c) ==
    /\ ~price_panel.none
    /\ d \in price_panel.index /\ c \in price_panel.columns
    /\ price_panel.val[<<d, c>>].k = "fin"

\* Constituent rows of snapshot (x, s) with a defined base price.
WithBase(x, s) == {q \in SnapRowsOf(x, s) : HasPrice(s, q.con_code)}

\* raw_c(d) = weight_c * P[d][c] / P[s][c] for a snapshot row q of date s
Raw(q, d) ==
    FMul(q.weight, FDiv(price_panel.val[<<d, q.con_code>>],
                        price_panel.val[<<q.trade_date, q.con_code>>]))

RECURSIVE RawSum(_, _)
RawSum(Q, d) ==
    IF Q = {} THEN F(0, 1)
    ELSE LET q == CHOOSE z \in Q : TRUE
         IN  FAdd(Raw(q, d), RawSum(Q \ {q}, d))

RECURSIVE DriftSum(_)
DriftSum(R) ==
    IF R = {} THEN F(0, 1)
    ELSE LET r == CHOOSE z \in R : TRUE
         IN  FAdd(r.drift_weight, DriftSum(R \ {r}))

PositiveBase(Q) ==
    \A q \in Q : ~IsZero(price_panel.val[<<q.trade_date, q.con_code>>])

\* The emitted rows of interval (x, s) on day d.
IntervalRows(x, s, d) ==
    {r \in out_df : r.index_code = x /\ r.snapshot_date = s /\ r.trade_date = d}

\* The calendar days of the interval of snapshot date s of index x.
IntervalDays(x, s) ==
    {d \in trade_dates :
        d >= s /\ ~\E t \in SnapDatesOf(x) : s < t /\ t <= d}

\* The emitted row of snapshot row q on day d has drift weight v.
EmitsDrift(q, d, v) ==
    \E r \in IntervalRows(q.index_code, q.trade_date, d) :
        r.con_code = q.con_code /\ r.weight = q.weight /\ r.drift_weight = v

\* The emitted row of snapshot row q on day d carries raw_q(d) / total.
EmitsShare(q, d, total) ==
    \E r \in IntervalRows(q.index_code, q.trade_date, d) :
        /\ r.con_code = q.con_code /\ r.drift_weight.k = "fin"
        /\ FMul(r.drift_weight, total) = Raw(q, d)

\* C3: on every day of every interval on which some drift_weight is defined,
\* the defined drift weights sum to 1.
C3_DriftSumsToOne ==
    pcExpand = "done" =>
        \A r \in out_df :
            LET R == {q \in IntervalRows(r.index_code, r.snapshot_date, r.trade_date) :
                         q.drift_weight.k = "fin"}
            IN  R # {} => DriftSum(R) = F(1, 1)

\* C4: for every day d of an interval and every constituent c with a defined
\* base price, drift_weight_c(d) is raw_c(d) divided by the sum of raw over
\* the constituents with a defined base price (stated where that quotient is
\* a number: positive base prices, non-zero sum).
C4_DriftFormula ==
    (pcExpand = "done" /\ ~price_panel.none) =>
        \A q \in df : \A d \in IntervalDays(q.index_code, q.trade_date) :
            LET Q == WithBase(q.index_code, q.trade_date)
            IN  (q \in Q /\ PositiveBase(Q) /\ ~IsZero(RawSum(Q, d)))
                    => EmitsShare(q, d, RawSum(Q, d))

\* C5: when constituent c of a snapshot has no defined price on the snapshot
\* date while others have one, c's rows are emitted with an undefined
\* drift_weight and every other constituent with a base price gets its
\* share raw / sum over the constituents with a base price (stated for
\* positive base prices and a non-zero sum).
C5_OnlyMissingConstituentExcluded ==
    (pcExpand = "done" /\ ~price_panel.none) =>
        \A q0 \in df : \A d \in IntervalDays(q0.index_code, q0.trade_date) :
            LET Q == WithBase(q0.index_code, q0.trade_date)
            IN  (q0 \notin Q /\ Q # {}) =>
                    /\ EmitsDrift(q0, d, NaN)
                    /\ (PositiveBase(Q) /\ ~IsZero(RawSum(Q, d))) =>
                           \A q \in Q : EmitsShare(q, d, RawSum(Q, d))

\* C6: a constituent whose base price is 0 has an undefined drift_weight on
\* every day of the interval, and the other constituents get the drift
\* weights they would get if it had no price: their share of the sum over
\* the constituents with a non-zero base price, undefined when that sum is 0.
C6_ZeroBaseExcluded ==
    (pcExpand = "done" /\ ~price_panel.none) =>
        \A q0 \in df : \A d \in IntervalDays(q0.index_code, q0.trade_date) :
            LET W == WithBase(q0.index_code, q0.trade_date)
                Q == {q \in W : ~IsZero(price_panel.val[<<q.trade_date, q.con_code>>])}
            IN  (q0 \in W \ Q) =>
                    /\ EmitsDrift(q0, d, NaN)
                    /\ \A q \in Q :
                          IF IsZero(RawSum(Q, d)) THEN EmitsDrift(q, d, NaN)
                          ELSE EmitsShare(q, d, RawSum(Q, d))

\* The raw drift values of the rows Q on day d are numbers and sum to zero.
ZeroRawSum(Q, d) ==
    /\ \A q \in Q : Raw(q, d).k = "fin"
    /\ IsZero(RawSum(Q, d))

C9_PanelForwardFill ==
    (pcExpand = "done" /\ ~price_panel.none) =>
        /\ price_panel.index = trade_dates
        /\ \A c \in {r.ts_code : r \in prices} : \A d \in trade_dates :
              LET obs == {r \in prices :
                             /\ r.ts_code = c /\ r.close.k # "nan"
                             /\ r.trade_date \in trade_dates /\ r.trade_date <= d}
              IN  IF obs = {} THEN ~HasPrice(d, c)
                  ELSE /\ HasPrice(d, c)
                       /\ \E r \in obs :
                             /\ r.trade_date = Max({o.trade_date : o \in obs})
                             /\ price_panel.val[<<d, c>>] = r.close

\* A panel in which one instrument's only earlier observation lies outside
\* the calendar (so its value is undefined on a calendar day) and another
\* value is carried forward from an earlier calendar day.
C9_Witness ==
    /\ pcExpand = "done" /\ ~price_panel.none
    /\ \E r \in prices : \E d \in trade_dates :
          /\ r.close.k = "fin" /\ r.trade_date \notin trade_dates
          /\ r.trade_date < d /\ ~HasPrice(d, r.ts_code)
    /\ \E r, q \in prices :
          /\ r.ts_code = q.ts_code /\ r.trade_date < q.trade_date
          /\ r.trade_date \in trade_dates /\ q.trade_date \in trade_dates
          /\ r.close.k = "fin" /\ q.close.k = "nan"
          /\ price_panel.val[<<q.trade_date, q.ts_code>>] = r.close

\* ---- refresh claims
\* C10: when a run that was aborted by a fetch failure is run again with the
\* same parameters, generate_daily set and the same upstream data, and
\* completes, the persisted snapshot table and the persisted daily output
\* equal what the aborted run would have left had no fetch failed.
C10_ResumedRunMatchesUninterrupted ==
    (pc = "done" /\ run.resumes /\ run.generate_daily) =>
        /\ raw_file = expected.raw
        /\ daily_file = expected.daily

\* C11: a run that a fetch failure terminates leaves no partially updated
\* persistent state: when the failed run has rewritten the snapshot file, the
\* daily output on disk is the one that belongs to that snapshot table.
C11_FailedRunLeavesNoPartialState ==
    (pc = "failed" /\ run.raw_writes > 0) => daily_file = expected.daily

\* The run in progress has fetched a batch and merged it.
AfterFetch ==
    pc \in {"daily", "cal", "done"} /\ run.start_date <= run.end_date

\* The run in progress merges into an existing table.
Merging == ~run.force_full_refresh /\ ~run.existing_none

Count(table, r) == Cardinality({i \in 1..Len(table) : table[i] = r})

\* Two tables hold the same rows, whatever their order.
SameRows(s, t) ==
    /\ Len(s) = Len(t)
    /\ \A i \in 1..Len(s) : Count(s, s[i]) = Count(t, s[i])

\* C12: with full_refresh false and an existing table, a fetch that returns
\* no rows is a no-op: the merged table has the rows of the existing table,
\* rows_added is 0 and the snapshot file is not rewritten.
C12_EmptyBatchIsNoOp ==
    (AfterFetch /\ Merging /\ run.df_new = <<>>) =>
        /\ SameRows(run.final_df, run.existing_df)
        /\ run.rows_added = 0
        /\ run.raw_writes = 0
        /\ raw_file.rows = ToCsv(run.existing_df)

C12_Witness ==
    /\ AfterFetch /\ Merging /\ run.df_new = <<>>
    /\ Len(run.existing_df) >= 2
    /\ runs >= 3

\* The key (index_code, con_code, snapshot date) of a row, whatever the form
\* its date is stored in.
KeyOf(r) == <<r.index_code, r.con_code, r.trade_date>>

RowsWithKey(table, k) == {i \in 1..Len(table) : KeyOf(table[i]) = k}

\* The last row of the batch with key k.
LastSeen(batch, k) ==
    batch[CHOOSE i \in RowsWithKey(batch, k) :
              \A j \in RowsWithKey(batch, k) : j <= i]

\* C13: in the incremental merge, a key of the fetched batch that is already
\* in the existing table has exactly one row in the merged table, and that
\* row is the newly fetched one (last-seen wins).
C13_MergeReplacesExistingKey ==
    (AfterFetch /\ Merging) =>
        \A i \in 1..Len(run.df_new) :
            LET k == KeyOf(run.df_new[i])
            IN  RowsWithKey(run.existing_df, k) # {} =>
                    /\ Cardinality(RowsWithKey(run.final_df, k)) = 1
                    /\ \A j \in RowsWithKey(run.final_df, k) :
                           run.final_df[j].weight = LastSeen(run.df_new, k).weight

\* C14: after any sequence of runs the persisted snapshot table holds at
\* most one row per key (index_code, con_code, snapshot date).
C14_OneRowPerKey ==
    \A i \in 1..Len(raw_file.rows), j \in 1..Len(raw_file.rows) :
        KeyOf(raw_file.rows[i]) = KeyOf(raw_file.rows[j]) => i = j

\* C15: with an existing table and full_refresh false the fetch window starts
\* the day after the latest snapshot date of the existing table; when that is
\* later than end_date the run fetches nothing, rows_added is 0, the merged
\* table is the existing table and the snapshot file is not written.
C15_IncrementalWindow ==
    Merging =>
        /\ \E i \in 1..Len(run.existing_df) :
               run.existing_df[i].trade_date + 1 = run.start_date
        /\ \A i \in 1..Len(run.existing_df) :
               run.existing_df[i].trade_date < run.start_date
        /\ run.start_date > run.end_date =>
               /\ pc # "fetch"
               /\ run.df_new = <<>>
               /\ run.rows_added = 0
               /\ run.final_df = run.existing_df
               /\ run.raw_writes = 0
               /\ raw_file.rows = ToCsv(run.existing_df)

C15_Witness ==
    /\ Merging /\ pc = "done"
    /\ run.start_date > run.end_date
    /\ Len(run.existing_df) >= 2

\* The run in progress does not merge: full_refresh is set or it found no
\* existing table.
Replacing == runs > 0 /\ (run.force_full_refresh \/ run.existing_none)

\* The persisted table is exactly the fetched batch, fetched from
\* default_start, and rows_added counts the batch.
PersistedIsFetched ==
    /\ run.start_date = run.default_start
    /\ SameRows(raw_file.rows, ToCsv(run.df_new))
    /\ run.rows_added = Len(run.df_new)

\* C16 as stated: a run with full_refresh set, or without an existing table,
\* fetches from default_start and leaves as the persisted table exactly the
\* fetched rows, rows_added being their number.
C16_FullRefreshReplaces ==
    (pc = "done" /\ Replacing) => PersistedIsFetched

\* C16 as amended: the same when default_start is not later than end_date;
\* when it is later, the run returns without fetching and without writing.
C16_FullRefreshReplacesInWindow ==
    (pc = "done" /\ Replacing) =>
        IF run.default_start <= run.end_date
        THEN PersistedIsFetched /\ run.raw_writes = 1
        ELSE /\ run.start_date = run.default_start
             /\ run.df_new = <<>> /\ run.rows_added = 0
             /\ run.raw_writes = 0

C16_Witness ==
    /\ pc = "done" /\ Replacing /\ run.force_full_refresh
    /\ run.default_start <= run.end_date
    /\ runs >= 2
    /\ Len(run.df_new) = 1
    /\ Len(raw_file.rows) = 1

\* C17: fetch_with_retry(fn, retries = n, base_delay = b) calls fn at most n
\* times; it returns the value of the first call that succeeds, which is its
\* last call; after the k-th failed call, k < n, it waits b * k before the
\* next call; after the n-th failure in a row it raises that failure and
\* returns no value.
C17_RetryContract ==
    retry.status # "off" =>
        /\ retry.calls <= retry.retries
        /\ (retry.status = "returned" /\ retry.calls > 0) =>
               /\ retry.result = retry.fn_value
               /\ retry.fn_value \in FnValues
               /\ Len(retry.failures) = retry.calls - 1
               /\ retry.raised = "none"
        /\ \A k \in 1..Len(retry.slept) : retry.slept[k] = retry.base_delay * k
        /\ Len(retry.slept) <= Len(retry.failures)
        /\ \A k \in 1..Len(retry.failures) :
               (k < retry.retries /\ retry.calls > k) => Len(retry.slept) >= k
        /\ retry.status = "raised" <=>
               (retry.retries >= 1 /\ Len(retry.failures) = retry.retries)
        /\ retry.status = "raised" =>
               /\ retry.raised = retry.failures[retry.retries]
               /\ retry.result = "none"
               /\ Len(retry.slept) = retry.retries - 1

C17_Witness ==
    /\ retry.status = "raised"
    /\ retry.retries = 3 /\ retry.base_delay = 2
    /\ retry.slept = <<2, 4>>
    /\ retry.failures = <<"e1", "e2", "e1">>

\* A snapshot file that is missing, zero-length, header-only or unreadable.
AbsentLike(file) ==
    \/ ~file.exists
    \/ file.lines = 0
    \/ file.lines = 1
    \/ ~file.readable

\* C18: a snapshot file that is missing, zero-length, header-only or unreadable
\* is treated as absent (has_data_rows is False for it and for no other file):
\* the run fetches from default_start and persists the fetched rows, merging
\* in nothing of that file.
C18_AbsentFileFullFetch ==
    (runs > 0 /\ ~run.force_full_refresh) =>
        /\ run.existing_none <=> AbsentLike(run.found)
        /\ AbsentLike(run.found) =>
               /\ run.start_date = run.default_start
               /\ run.existing_df = <<>>
               /\ AfterFetch =>
                      /\ run.raw_writes = 1
                      /\ SameRows(raw_file.rows, ToCsv(run.df_new))
                      /\ run.rows_added = Len(run.df_new)

C18_Witness ==
    /\ ~run.force_full_refresh /\ AfterFetch
    /\ run.found = UnreadableFile
    /\ Len(run.df_new) = 2
    /\ Len(raw_file.rows) = 2

KeysOf(file_rows) == {KeyOf(file_rows[i]) : i \in 1..Len(file_rows)}

\* C19: a run with full_refresh false that finds a snapshot file with data
\* rows leaves the file untouched or rewritten with a superset of its keys,
\* and writes it at most once.
C19_KeysNeverShrink ==
    (runs > 0 /\ ~run.force_full_refresh /\ has_data_rows(run.found)) =>
        /\ KeysOf(run.found.rows) \subseteq KeysOf(raw_file.rows)
        /\ run.raw_writes <= 1
        /\ run.raw_writes = 0 => raw_file = run.found
        /\ pc = "fetch" => run.raw_writes = 0

C19_Witness ==
    /\ ~run.force_full_refresh /\ has_data_rows(run.found)
    /\ pc = "done" /\ run.raw_writes = 1
    /\ KeysOf(run.found.rows) # KeysOf(raw_file.rows)
    /\ \E i \in 1..Len(run.df_new) : KeyOf(run.df_new[i]) \in KeysOf(run.found.rows)

====
